---- MODULE Spec2Model ----
(***************************************************************************)
(* Model of the convolution functions of DIPlib 3.0                        *)
(* (src/src/linear/convolution.cpp): the normalisation of one-dimensional  *)
(* filters, the separable line filter, SeparableConvolution, ConvolveFT    *)
(* and GeneralConvolution.                                                 *)
(*                                                                         *)
(* Samples and filter coefficients are integers: the arithmetic of the     *)
(* flex (floating point) types is modelled exactly, without rounding.      *)
(* Dimensions, sample indices and filter indices are 0-based as in the     *)
(* source; TLA+ sequences are 1-based, hence the "+ 1" at every access.    *)
(***************************************************************************)
EXTENDS Integers, Sequences, FiniteSets, TLC

VARIABLES pc, op, in, out, filterArray, boundaryCondition, process, kernel,
          representation, err, nfilter, engine, shared, lines, memory

vars == <<pc, op, in, out, filterArray, boundaryCondition, process, kernel,
          representation, err, nfilter, engine, shared, lines, memory>>

\* the state of the function calls
callVars == <<pc, op, in, out, filterArray, boundaryCondition, process, kernel,
              representation, err, nfilter, engine>>

\* the state of line filter invocations: what they share, the parameters and
\* progress of each, and the memory their buffers lie in
lineVars == <<shared, lines, memory>>

(***************************************************************************)
(* Bounds of the model.                                                    *)
(***************************************************************************)
\* largest extent of an image along one dimension
MaxLen == 3
\* largest number of coefficients of a OneDimensionalFilter
MaxHalf == 2
\* width in bits of dip::uint and dip::sint in the model (64 in the build):
\* wide enough for every size, origin and border of the model, so that only
\* the differences that wrap in the build wrap here
UintBits == 16

UintMod == 2 ^ UintBits

\* unsigned arithmetic of dip::uint
ToUint(x) == x % UintMod

\* static_cast< dip::sint >( x ) of a dip::uint
ToSint(x) == IF x >= UintMod \div 2 THEN x - UintMod ELSE x

Max(a, b) == IF a >= b THEN a ELSE b

NoError == <<>>

(***************************************************************************)
(* Images.  An image is a record: forged, sizes (one extent per            *)
(* dimension), dtype, and data, a function from coordinates (tuples of     *)
(* 0-based indices) to samples.  The data of an image written by an        *)
(* external function whose arithmetic is not modelled is the empty         *)
(* function.                                                               *)
(***************************************************************************)
RawImage == [forged |-> FALSE, sizes |-> <<>>, dtype |-> "sfloat", data |-> <<>>]

RECURSIVE Coords(_)
Coords(sizes) ==
    IF sizes = <<>> THEN {<<>>}
    ELSE {Append(c, i) : c \in Coords(SubSeq(sizes, 1, Len(sizes) - 1)),
                         i \in 0 .. (sizes[Len(sizes)] - 1)}

Dimensionality(img) == Len(img.sizes)

(***************************************************************************)
(* InternOneDimensionalFilter: the normalised form of a                    *)
(* OneDimensionalFilter [filter, symmetry, origin].  The constructor       *)
(* either throws (err is the message) or yields size, origin and symmetry. *)
(***************************************************************************)
\* the symmetry strings compared without regard to case
ParseSymmetryAnyCase(symmetry) ==
    CASE symmetry = "" \/ symmetry = "general" -> "GENERAL"
      [] symmetry \in {"even", "Even"} -> "EVEN"
      [] symmetry = "odd" -> "ODD"
      [] symmetry = "d-even" -> "D_EVEN"
      [] symmetry = "d-odd" -> "D_ODD"
      [] OTHER -> "unrecognized"

ParseSymmetry(symmetry) ==
    CASE symmetry = "" \/ symmetry = "general" -> "GENERAL"
      [] symmetry = "even" -> "EVEN"
      [] symmetry = "odd" -> "ODD"
      [] symmetry = "d-even" -> "D_EVEN"
      [] symmetry = "d-odd" -> "D_ODD"
      [] OTHER -> "unrecognized"

\* every symmetric form taken to repeat all of its coefficients
ExpandedSizeDoubled(size, symmetry) ==
    CASE symmetry \in {"EVEN", "ODD", "D_EVEN", "D_ODD"} -> ToUint(size + size)
      [] OTHER -> size

\* size after "size += size - 1" (even, odd) or "size += size" (d-even, d-odd)
ExpandedSize(size, symmetry) ==
    CASE symmetry \in {"EVEN", "ODD"} -> ToUint(size + ToUint(size - 1))
      [] symmetry \in {"D_EVEN", "D_ODD"} -> ToUint(size + size)
      [] OTHER -> size

\* the test of DIP_THROW_IF( origin >= size, "Origin outside of filter" )
OriginOutsideLax(origin, size) == origin > size

OriginOutside(origin, size) == origin >= size

\* the guard "if( size != 0 )" around the symmetry and origin handling
HasCoefficients(size) == size # 0

InternOneDimensionalFilter(f) ==
    LET n == Len(f.filter)
        sym == ParseSymmetry(f.symmetry)
        size == ExpandedSize(n, sym)
        made == [err |-> NoError, filter |-> f.filter, size |-> n, origin |-> 0,
                 symmetry |-> "GENERAL"]
    IN  IF ~HasCoefficients(n) THEN made
        ELSE IF sym = "unrecognized"
        THEN [made EXCEPT !.err = <<"Symmetry string not recognized: ", f.symmetry>>]
        ELSE IF f.origin < 0
        THEN [made EXCEPT !.size = size, !.symmetry = sym, !.origin = size \div 2]
        ELSE IF OriginOutside(ToUint(f.origin), size)
        THEN [made EXCEPT !.err = <<"Origin outside of filter">>]
        ELSE [made EXCEPT !.size = size, !.symmetry = sym, !.origin = ToUint(f.origin)]

(***************************************************************************)
(* SeparableConvolutionLineFilter::Filter.  The input buffer is a function *)
(* of the sample index relative to the start of the line, in units of the  *)
(* input stride; a pointer is such an index.  Reading an index outside the *)
(* buffer's domain is an evaluation error.                                 *)
(***************************************************************************)
\* the entry of filter_ that the line filter uses
ProcDimUnadjusted(nFilters, dimension, tensorToSpatial) ==
    IF nFilters > 1 THEN dimension ELSE 0

ProcDim(nFilters, dimension, tensorToSpatial) ==
    IF nFilters > 1
    THEN IF tensorToSpatial THEN dimension - 1 ELSE dimension
    ELSE 0

\* inner loop of GENERAL: jj runs up, in_t runs down
RECURSIVE GeneralTaps(_, _, _, _, _)
GeneralTaps(filter, buf, in_t, jj, filterSize) ==
    IF jj < filterSize
    THEN filter[jj + 1] * buf[in_t] + GeneralTaps(filter, buf, in_t - 1, jj + 1, filterSize)
    ELSE 0

\* inner loop of EVEN and D_EVEN: --jj, then filter[ jj ] * ( *in_r + *in_l )
RECURSIVE SumTaps(_, _, _, _, _)
SumTaps(filter, buf, in_l, in_r, jj) ==
    IF jj > 0
    THEN filter[jj] * (buf[in_r] + buf[in_l]) + SumTaps(filter, buf, in_l - 1, in_r + 1, jj - 1)
    ELSE 0

\* inner loop of ODD and D_ODD: --jj, then filter[ jj ] * ( *in_r - *in_l )
RECURSIVE DiffTaps(_, _, _, _, _)
DiffTaps(filter, buf, in_l, in_r, jj) ==
    IF jj > 0
    THEN filter[jj] * (buf[in_r] - buf[in_l]) + DiffTaps(filter, buf, in_l - 1, in_r + 1, jj - 1)
    ELSE 0

\* the difference of the two unsigned numbers without the cast
StartOffsetUnsigned(origin, fsh) == ToUint(origin - fsh)

\* "in += static_cast< dip::sint >( origin - fsh ) * inStride"
StartOffset(origin, fsh) == ToSint(ToUint(origin - fsh))

FilterGeneral(f, buf, ii) ==
    GeneralTaps(f.filter, buf, f.origin + ii, 0, f.size)

FilterEven(f, buf, ii) ==
    LET fsh == Len(f.filter) - 1
        in_r == StartOffset(f.origin, fsh) + ii
    IN  f.filter[fsh + 1] * buf[in_r] + SumTaps(f.filter, buf, in_r - 1, in_r + 1, fsh)

FilterOddAsEven(f, buf, ii) == FilterEven(f, buf, ii)

FilterOdd(f, buf, ii) ==
    LET fsh == Len(f.filter) - 1
        in_r == StartOffset(f.origin, fsh) + ii
    IN  f.filter[fsh + 1] * buf[in_r] + DiffTaps(f.filter, buf, in_r - 1, in_r + 1, fsh)

FilterDEven(f, buf, ii) ==
    LET fsh == Len(f.filter) - 1
        in_r == StartOffset(f.origin, fsh) + ii
    IN  SumTaps(f.filter, buf, in_r - 1, in_r, fsh + 1)

FilterDOdd(f, buf, ii) ==
    LET fsh == Len(f.filter) - 1
        in_r == StartOffset(f.origin, fsh) + ii
    IN  DiffTaps(f.filter, buf, in_r - 1, in_r, fsh + 1)

\* the line written to the output buffer: sample ii for ii in 0..length-1
SeparableLineFilter(filter_, buf, length, dimension, tensorToSpatial) ==
    LET f == filter_[ProcDim(Len(filter_), dimension, tensorToSpatial) + 1]
    IN  [ii \in 0 .. (length - 1) |->
            CASE f.symmetry = "GENERAL" -> FilterGeneral(f, buf, ii)
              [] f.symmetry = "EVEN" -> FilterEven(f, buf, ii)
              [] f.symmetry = "ODD" -> FilterOdd(f, buf, ii)
              [] f.symmetry = "D_EVEN" -> FilterDEven(f, buf, ii)
              [] f.symmetry = "D_ODD" -> FilterDOdd(f, buf, ii)]

\* the samples the inner loop of GENERAL dereferences: in_t runs down
RECURSIVE GeneralReads(_, _, _)
GeneralReads(in_t, jj, filterSize) ==
    IF jj < filterSize
    THEN {in_t} \cup GeneralReads(in_t - 1, jj + 1, filterSize)
    ELSE {}

\* the samples the inner loop of the symmetric forms dereferences: in_l runs
\* down and in_r runs up
RECURSIVE PairReads(_, _, _)
PairReads(in_l, in_r, jj) ==
    IF jj > 0
    THEN {in_r, in_l} \cup PairReads(in_l - 1, in_r + 1, jj - 1)
    ELSE {}

\* the indices, relative to the start of the line and in units of the input
\* stride, of the input samples read for output sample ii with filter f
SamplesRead(f, ii) ==
    LET fsh == Len(f.filter) - 1
        in_r == StartOffset(f.origin, fsh) + ii
    IN  CASE f.symmetry = "GENERAL" -> GeneralReads(f.origin + ii, 0, f.size)
          [] f.symmetry \in {"EVEN", "ODD"} ->
                {in_r} \cup PairReads(in_r - 1, in_r + 1, fsh)
          [] f.symmetry \in {"D_EVEN", "D_ODD"} -> PairReads(in_r - 1, in_r, fsh + 1)

\* the output samples of a line laid next to each other whatever the stride
OutPositionPacked(outBuffer, ii, outStride) == outBuffer + ii

\* where "*out = sum" writes in iteration ii, after ii times "out += outStride"
OutPosition(outBuffer, ii, outStride) == outBuffer + ii * outStride

IsMeaninglessFilterEmptyOnly(f) == f.size = 0

IsMeaninglessFilter(f) ==
    (f.size = 0) \/ ((f.size = 1) /\ (f.filter[1] = 1))

(***************************************************************************)
(* The collaborators of SeparableConvolution that live outside             *)
(* convolution.cpp: the boundary-condition parser, the flex data type and  *)
(* Framework::Separable, which extends every line by the border, hands it  *)
(* to the line filter, and assembles the output.                           *)
(***************************************************************************)
BoundaryConditionVocabulary ==
    {"periodic", "add zeros", "symmetric mirror", "asymmetric mirror",
     "zero order", "second order", "third order", "default"}

StringArrayToBoundaryConditionArray(bc) ==
    IF \E i \in 1 .. Len(bc) : bc[i] \notin BoundaryConditionVocabulary
    THEN [err |-> <<"Boundary condition not recognized">>, bc |-> <<>>]
    ELSE [err |-> NoError, bc |-> bc]

SuggestFlex(dtype) ==
    IF dtype \in {"sfloat", "dfloat", "scomplex", "dcomplex"} THEN dtype ELSE "sfloat"

\* the sample at index i of a line of `length` samples extended under bc
ExtendedSample(line, length, i, bc) ==
    CASE bc = "periodic" -> line[i % length]
      [] bc = "add zeros" -> IF i < 0 \/ i >= length THEN 0 ELSE line[i]
      [] bc = "symmetric mirror" ->
            LET j == i % (2 * length)
            IN  IF j < length THEN line[j] ELSE line[2 * length - 1 - j]

\* the boundary condition of dimension d: one string for all, or one each
BoundaryOf(bc, d) == IF Len(bc) = 1 THEN bc[1] ELSE bc[d + 1]

\* the image after the lines along dimension d went through the line filter
FilterAlong(data, sizes, d, border, bc, filter_) ==
    LET length == sizes[d + 1]
    IN  [c \in Coords(sizes) |->
            LET line == [i \in 0 .. (length - 1) |-> data[[c EXCEPT ![d + 1] = i]]]
                buf == [i \in (0 - border) .. (length - 1 + border) |->
                            ExtendedSample(line, length, i, bc)]
            IN  SeparableLineFilter(filter_, buf, length, d, FALSE)[c[d + 1]]]

RECURSIVE SeparableFrom(_, _, _, _, _, _, _)
SeparableFrom(data, sizes, d, processArg, border, bc, filter_) ==
    IF d >= Len(sizes) THEN data
    ELSE SeparableFrom(
            IF processArg[d + 1]
            THEN FilterAlong(data, sizes, d, border[d + 1], BoundaryOf(bc, d), filter_)
            ELSE data,
            sizes, d + 1, processArg, border, bc, filter_)

\* the output image of Framework::Separable
FrameworkSeparable(inArg, dtype, processArg, border, bc, filter_) ==
    [forged |-> TRUE, sizes |-> inArg.sizes, dtype |-> dtype,
     data |-> SeparableFrom(inArg.data, inArg.sizes, 0, processArg, border, bc, filter_)]

(***************************************************************************)
(* SeparableConvolution.  The result holds the error thrown (NoError when  *)
(* the call returns), the output image after the call, and the external    *)
(* functions invoked with what was handed to them.                         *)
(***************************************************************************)
\* DIP_THROW_IF( !in.IsForged(), E::IMAGE_NOT_FORGED ), the first statement of
\* SeparableConvolution, ConvolveFT and GeneralConvolution
NotForgedUnchecked(img) == FALSE

NotForged(img) == ~img.forged

\* the filter count test of line 212
IllegalFilterCount(count, nDims) == (count # 1) /\ (count # nDims)

\* the first exception thrown while filterData is filled
RECURSIVE FirstError(_, _)
FirstError(filterData, ii) ==
    IF ii >= Len(filterData) THEN NoError
    ELSE IF filterData[ii + 1].err # NoError THEN filterData[ii + 1].err
    ELSE FirstError(filterData, ii + 1)

\* "b = std::max( b, sz - b - 1 )" on dip::uint
BorderOf(f) == Max(f.origin, ToUint(f.size - f.origin - 1))

BorderArray(filterData, nDims) ==
    IF Len(filterData) = 1
    THEN [ii \in 1 .. nDims |-> BorderOf(filterData[1])]
    ELSE [ii \in 1 .. nDims |-> BorderOf(filterData[ii])]

\* the array resized with false
DefaultProcessNone(nDims) == [ii \in 1 .. nDims |-> FALSE]

\* process.resize( nDims, true ) of an empty array
DefaultProcess(nDims) == [ii \in 1 .. nDims |-> TRUE]

\* the test of a non-empty process array, line 238
WrongProcessLength(processArg, nDims) == Len(processArg) # nDims

\* lines 240-251: dimensions that need no processing
ElideProcess(processArg, filterData, inArg, nDims) ==
    IF Len(filterData) = 1
    THEN IF IsMeaninglessFilter(filterData[1])
         THEN [ii \in 1 .. nDims |-> FALSE]
         ELSE processArg
    ELSE [ii \in 1 .. nDims |->
            IF IsMeaninglessFilter(filterData[ii]) \/ (inArg.sizes[ii] <= 1)
            THEN FALSE
            ELSE processArg[ii]]

\* lines 252-270 with the boundary condition array only looked at by the
\* engine, once it has forged the output
DispatchUnchecked(inArg, outArg, boundaryConditionArg, processArg, border, filterData) ==
    LET bc == StringArrayToBoundaryConditionArray(boundaryConditionArg)
        dtype == SuggestFlex(inArg.dtype)
        called == <<[fn |-> "Framework::Separable", process |-> processArg,
                     border |-> border, dtype |-> dtype]>>
    IN  IF bc.err # NoError
        THEN [err |-> bc.err,
              out |-> [forged |-> TRUE, sizes |-> inArg.sizes, dtype |-> dtype,
                       data |-> <<>>],
              engine |-> called]
        ELSE [err |-> NoError,
              out |-> FrameworkSeparable(inArg, dtype, processArg, border, bc.bc,
                                         filterData),
              engine |-> called]

\* lines 252-270: the boundary conditions are parsed, then the line filter is
\* made for the flex type and handed to Framework::Separable
Dispatch(inArg, outArg, boundaryConditionArg, processArg, border, filterData) ==
    LET bc == StringArrayToBoundaryConditionArray(boundaryConditionArg)
        dtype == SuggestFlex(inArg.dtype)
    IN  IF bc.err # NoError
        THEN [err |-> bc.err, out |-> outArg, engine |-> <<>>]
        ELSE [err |-> NoError,
              out |-> FrameworkSeparable(inArg, dtype, processArg, border, bc.bc,
                                         filterData),
              engine |-> <<[fn |-> "Framework::Separable", process |-> processArg,
                            border |-> border, dtype |-> dtype]>>]

SeparableConvolution(inArg, outArg, filterArrayArg, boundaryConditionArg, processArg) ==
    LET failed(e) == [err |-> e, out |-> outArg, engine |-> <<>>]
        nDims == Dimensionality(inArg)
        filterData == [ii \in 1 .. Len(filterArrayArg) |->
                          InternOneDimensionalFilter(filterArrayArg[ii])]
        border == BorderArray(filterData, nDims)
        process1 == IF processArg = <<>> THEN DefaultProcess(nDims) ELSE processArg
        process2 == ElideProcess(process1, filterData, inArg, nDims)
    IN  IF NotForged(inArg) THEN failed(<<"E::IMAGE_NOT_FORGED">>)
        ELSE IF nDims < 1 THEN failed(<<"E::DIMENSIONALITY_NOT_SUPPORTED">>)
        ELSE IF IllegalFilterCount(Len(filterArrayArg), nDims)
        THEN failed(<<"E::ARRAY_ILLEGAL_SIZE">>)
        ELSE IF FirstError(filterData, 0) # NoError THEN failed(FirstError(filterData, 0))
        ELSE IF processArg # <<>> /\ WrongProcessLength(processArg, nDims)
        THEN failed(<<"E::ARRAY_PARAMETER_WRONG_LENGTH">>)
        ELSE Dispatch(inArg, outArg, boundaryConditionArg, process2, border, filterData)

(***************************************************************************)
(* ConvolveFT.  FourierTransform, Pad and MultiplySampleWise are external: *)
(* the model records their invocations in order and the shape and data     *)
(* type of what they produce, not the samples.                             *)
(***************************************************************************)
IsReal(dtype) == dtype \notin {"scomplex", "dcomplex"}

IsBinary(dtype) == dtype = "bin"

\* the data type of a forward transform's output
ComplexOf(dtype) == IF dtype \in {"dfloat", "dcomplex"} THEN "dcomplex" ELSE "scomplex"

\* the data type of an inverse transform's output with the "real" option
RealOf(dtype) == IF dtype = "dcomplex" THEN "dfloat" ELSE "sfloat"

\* filterFT.ExpandDimensionality( n ): trailing singleton dimensions
RECURSIVE ExpandDimensionality(_, _)
ExpandDimensionality(sizes, n) ==
    IF Len(sizes) >= n THEN sizes ELSE ExpandDimensionality(Append(sizes, 1), n)

\* a.Sizes() <= b.Sizes(): false when the lengths differ
SizesLessEqual(a, b) ==
    (Len(a) = Len(b)) /\ \A ii \in 1 .. Len(a) : a[ii] <= b[ii]

\* the real flag when an operand is not brought to the frequency domain here
RealAfterKept(real, rep, dtype) ==
    IF rep = "spatial" THEN real /\ IsReal(dtype) ELSE real

\* real &= DataType().IsReal() for a spatial operand, real = false otherwise
RealAfter(real, rep, dtype) ==
    IF rep = "spatial" THEN real /\ IsReal(dtype) ELSE FALSE

\* the sizes of the filter used as they are given
FilterShapeAsGiven(filterSizes, nDims) == filterSizes

\* the sizes of filterFT after the conditional ExpandDimensionality
FilterShape(filterSizes, nDims) ==
    IF Len(filterSizes) < nDims
    THEN ExpandDimensionality(filterSizes, nDims) ELSE filterSizes

\* filterFT.Pad( sizes ): an image of the sizes asked for
Pad(filterSizes, sizes) == sizes

\* one call of an external function: its name, the image it works on, the
\* sizes of its operands and its options
Call(fn, arg, sizes, options) == [fn |-> fn, arg |-> arg, sizes |-> sizes, options |-> options]

ConvolveFT(inArg, filterArg, outArg, inRepresentation, filterRepresentation, outRepresentation) ==
    LET real0 == TRUE
        real1 == RealAfter(real0, inRepresentation, inArg.dtype)
        calls1 == IF inRepresentation = "spatial"
                  THEN <<Call("FourierTransform", "in", <<inArg.sizes>>, {})>>
                  ELSE <<>>
        inFTtype == IF inRepresentation = "spatial"
                    THEN ComplexOf(inArg.dtype) ELSE inArg.dtype
        filterSizes == FilterShape(filterArg.sizes, Dimensionality(inArg))
        padded == Pad(filterSizes, inArg.sizes)
        calls2 == Append(calls1, Call("Pad", "filter", <<padded>>, {}))
        real2 == RealAfter(real1, filterRepresentation, filterArg.dtype)
        calls3 == IF filterRepresentation = "spatial"
                  THEN Append(calls2, Call("FourierTransform", "filter", <<padded>>, {}))
                  ELSE calls2
        dt == inFTtype
        calls4 == Append(calls3, Call("MultiplySampleWise", "out",
                                      <<inArg.sizes, padded>>, {}))
        options == IF real2 THEN {"inverse", "real"} ELSE {"inverse"}
        calls5 == IF outRepresentation = "spatial"
                  THEN Append(calls4, Call("FourierTransform", "out",
                                           <<inArg.sizes>>, options))
                  ELSE calls4
        outType == IF outRepresentation = "spatial" /\ real2 THEN RealOf(dt) ELSE dt
    IN  IF NotForged(inArg)
        THEN [err |-> <<"E::IMAGE_NOT_FORGED">>, out |-> outArg, engine |-> <<>>, real |-> real0]
        ELSE IF NotForged(filterArg)
        THEN [err |-> <<"E::IMAGE_NOT_FORGED">>, out |-> outArg, engine |-> <<>>, real |-> real0]
        ELSE IF ~SizesLessEqual(filterSizes, inArg.sizes)
        THEN [err |-> <<"E::SIZES_DONT_MATCH">>, out |-> outArg, engine |-> calls1,
              real |-> real1]
        ELSE [err |-> NoError,
              out |-> [forged |-> TRUE, sizes |-> inArg.sizes, dtype |-> outType,
                       data |-> <<>>],
              engine |-> calls5, real |-> real2]

(***************************************************************************)
(* GeneralConvolution.  The Kernel and its pixel table, Uniform and        *)
(* Framework::Full are external.  A pixel table is a sequence of           *)
(* [offset, weight]: the offset is a coordinate difference.                *)
(***************************************************************************)
\* the set {1..n} as a sequence in increasing order of the elements of S
RECURSIVE SetToSeq(_)
SetToSeq(S) ==
    IF S = {} THEN <<>>
    ELSE LET x == CHOOSE y \in S : TRUE IN Append(SetToSeq(S \ {x}), x)

\* Kernel filter{ c_filter }: the weights around the pixel at sizes / 2
KernelFromImage(c_filter, nDims) ==
    LET sizes == ExpandDimensionality(c_filter.sizes, nDims)
        pad(c) == SubSeq(c, 1, Len(c_filter.sizes))
    IN  SetToSeq({[offset |-> [d \in 1 .. nDims |-> c[d] - (sizes[d] \div 2)],
                   weight |-> c_filter.data[pad(c)]] : c \in Coords(sizes)})

\* filter.Mirror(): the offsets are negated
Mirror(pixelTable) ==
    [k \in 1 .. Len(pixelTable) |->
        [offset |-> [d \in 1 .. Len(pixelTable[k].offset) |-> 0 - pixelTable[k].offset[d]],
         weight |-> pixelTable[k].weight]]

\* the sample at coordinates c of an image extended under bc in every dimension
ExtendedImageSample(data, sizes, c, bc) ==
    IF \E d \in 1 .. Len(sizes) :
          BoundaryOf(bc, d - 1) = "add zeros" /\ (c[d] < 0 \/ c[d] >= sizes[d])
    THEN 0
    ELSE data[[d \in 1 .. Len(sizes) |->
                 ExtendedSample([i \in 0 .. (sizes[d] - 1) |-> i], sizes[d], c[d],
                                BoundaryOf(bc, d - 1))]]

\* the inner loop without the weights
RECURSIVE UnweightedTaps(_, _, _, _)
UnweightedTaps(buf, at, pixelTable, k) ==
    IF k > Len(pixelTable) THEN 0
    ELSE buf[[d \in 1 .. Len(at) |-> at[d] + pixelTable[k].offset[d]]]
         + UnweightedTaps(buf, at, pixelTable, k + 1)

\* inner loop of GeneralConvolutionLineFilter::Filter: the pixel table is walked
RECURSIVE WeightedTaps(_, _, _, _)
WeightedTaps(buf, at, pixelTable, k) ==
    IF k > Len(pixelTable) THEN 0
    ELSE buf[[d \in 1 .. Len(at) |-> at[d] + pixelTable[k].offset[d]]]
            * pixelTable[k].weight
         + WeightedTaps(buf, at, pixelTable, k + 1)

\* GeneralConvolutionLineFilter::Filter: output sample ii of the line that
\* starts at coordinates `start` and runs along dimension 0
GeneralLineFilter(buf, start, length, pixelTable) ==
    [ii \in 0 .. (length - 1) |->
        WeightedTaps(buf, [start EXCEPT ![1] = start[1] + ii], pixelTable, 1)]

\* the largest distance along dimension d of a pixel table entry
Reach(pixelTable, d) ==
    LET dist == {Max(pixelTable[k].offset[d], 0 - pixelTable[k].offset[d]) :
                    k \in 1 .. Len(pixelTable)}
    IN  IF dist = {} THEN 0 ELSE CHOOSE m \in dist : \A x \in dist : m >= x

\* the output image of Framework::Full: the input is extended by the reach of
\* the kernel and every line along dimension 0 goes through the line filter
FrameworkFull(inArg, dtype, bc, pixelTable) ==
    LET nDims == Len(inArg.sizes)
        window == {[d \in 1 .. nDims |-> c[d] - Reach(pixelTable, d)] :
                      c \in Coords([d \in 1 .. nDims |->
                                       inArg.sizes[d] + 2 * Reach(pixelTable, d)])}
        buf == [c \in window |-> ExtendedImageSample(inArg.data, inArg.sizes, c, bc)]
    IN  [forged |-> TRUE, sizes |-> inArg.sizes, dtype |-> dtype,
         data |-> [c \in Coords(inArg.sizes) |->
                      GeneralLineFilter(buf, [c EXCEPT ![1] = 0], inArg.sizes[1],
                                        pixelTable)[c[1]]]]

\* the shortcut to Uniform never taken
UniformShortcutNever(c_filter) == FALSE

\* c_filter.DataType().IsBinary(): the kernel is a shape, Uniform does the work
UniformShortcut(c_filter) == IsBinary(c_filter.dtype)

GeneralConvolution(inArg, c_filter, outArg, boundaryConditionArg) ==
    LET failed(e, calls) == [err |-> e, out |-> outArg, engine |-> calls]
        nDims == Dimensionality(inArg)
        filter == Mirror(KernelFromImage(c_filter, nDims))
        bc == StringArrayToBoundaryConditionArray(boundaryConditionArg)
        dtype == SuggestFlex(inArg.dtype)
    IN  IF NotForged(inArg) THEN failed(<<"E::IMAGE_NOT_FORGED">>, <<>>)
        ELSE IF NotForged(c_filter) THEN failed(<<"E::IMAGE_NOT_FORGED">>, <<>>)
        ELSE IF UniformShortcut(c_filter)
        THEN [err |-> NoError,
              out |-> [forged |-> TRUE, sizes |-> inArg.sizes, dtype |-> dtype,
                       data |-> <<>>],
              engine |-> <<[fn |-> "Uniform", kernel |-> filter]>>]
        ELSE IF bc.err # NoError THEN failed(bc.err, <<>>)
        ELSE [err |-> NoError,
              out |-> FrameworkFull(inArg, dtype, bc.bc, filter),
              engine |-> <<[fn |-> "Framework::Full", kernel |-> filter]>>]

(***************************************************************************)
(* The inputs of the calls.                                                *)
(***************************************************************************)
Shapes ==
    {<<>>} \cup {<<a>> : a \in 1 .. MaxLen}
           \cup {<<a, b>> : a \in 1 .. MaxLen, b \in 1 .. 2}

Image(sizes, dtype, data) ==
    [forged |-> TRUE, sizes |-> sizes, dtype |-> dtype, data |-> data]

\* an image whose samples all differ
Ramp(sizes) ==
    Image(sizes, "uint16",
          [c \in Coords(sizes) |->
              1 + (IF Len(c) > 0 THEN c[1] ELSE 0) + (IF Len(c) > 1 THEN MaxLen * c[2] ELSE 0)])

\* an image with one sample set
Delta(sizes, at) ==
    Image(sizes, "uint16", [c \in Coords(sizes) |-> IF c = at THEN 1 ELSE 0])

Ramps == {Ramp(sizes) : sizes \in Shapes}

Deltas == UNION {{Delta(sizes, at) : at \in Coords(sizes)} : sizes \in Shapes}

\* the output image before the call: not forged, or left by an earlier call
OutBefore == {RawImage, Image(<<2>>, "sfloat", [c \in Coords(<<2>>) |-> 7])}

Coefficients == {1, 2}

CoefficientArrays == UNION {[1 .. n -> Coefficients] : n \in 0 .. MaxHalf}

SymmetryStrings == {"", "general", "even", "odd", "d-even", "d-odd", "Even", "none"}

Origins == (0 - 1) .. (2 * MaxHalf)

OneDimensionalFilters ==
    [filter : CoefficientArrays, symmetry : SymmetryStrings, origin : Origins]

OneDimensionalFilter(filter, symmetry, origin) ==
    [filter |-> filter, symmetry |-> symmetry, origin |-> origin]

\* the filters that filter arrays of several entries are made of
ArrayFilters ==
    {OneDimensionalFilter(<<>>, "", 0 - 1),
     OneDimensionalFilter(<<>>, "none", 1),
     OneDimensionalFilter(<<1>>, "general", 0 - 1),
     OneDimensionalFilter(<<2>>, "even", 0),
     OneDimensionalFilter(<<1, 2>>, "", 0 - 1),
     OneDimensionalFilter(<<2, 1>>, "d-odd", 3),
     OneDimensionalFilter(<<1, 2>>, "odd", 3),
     OneDimensionalFilter(<<2>>, "Even", 0)}

FilterArrays ==
    {<<>>} \cup {<<f>> : f \in ArrayFilters}
           \cup {<<f, g>> : f \in ArrayFilters, g \in ArrayFilters}
           \cup {<<f, f, f>> : f \in {OneDimensionalFilter(<<1>>, "general", 0 - 1)}}

BoundaryConditionArrays ==
    {<<"periodic">>, <<"add zeros">>, <<"symmetric mirror">>, <<"mirror">>}

ProcessArrays ==
    {<<>>, <<TRUE>>, <<FALSE>>, <<TRUE, TRUE>>, <<TRUE, FALSE>>, <<FALSE, TRUE>>,
     <<TRUE, TRUE, TRUE>>}

Representations == [1 .. 3 -> {"spatial", "frequency"}]

(***************************************************************************)
(* The state machine: one call of one of the functions, on inputs drawn    *)
(* from the sets above.                                                    *)
(***************************************************************************)
Init ==
    /\ pc = "ready"
    /\ op = "none"
    /\ in = RawImage
    /\ out \in OutBefore
    /\ filterArray = <<>>
    /\ boundaryCondition = <<>>
    /\ process = <<>>
    /\ kernel = RawImage
    /\ representation = <<>>
    /\ err = NoError
    /\ nfilter = InternOneDimensionalFilter(OneDimensionalFilter(<<>>, "", 0 - 1))
    /\ engine = <<>>
    /\ shared = [filter_ |-> <<>>, pixelTable |-> <<>>]
    /\ lines = <<>>
    /\ memory = <<>>

\* the constructor of InternOneDimensionalFilter on its own
DoInternOneDimensionalFilter ==
    /\ pc = "ready"
    /\ \E f \in OneDimensionalFilters :
          /\ filterArray' = <<f>>
          /\ nfilter' = InternOneDimensionalFilter(f)
          /\ err' = InternOneDimensionalFilter(f).err
    /\ op' = "InternOneDimensionalFilter"
    /\ pc' = "done"
    /\ UNCHANGED <<in, out, boundaryCondition, process, kernel, representation, engine>>
    /\ UNCHANGED lineVars

SeparableCall(i, fa, bc, p) ==
    LET r == SeparableConvolution(i, out, fa, bc, p)
    IN  /\ in' = i
        /\ filterArray' = fa
        /\ boundaryCondition' = bc
        /\ process' = p
        /\ err' = r.err
        /\ out' = r.out
        /\ engine' = r.engine
        /\ op' = "SeparableConvolution"
        /\ pc' = "done"
        /\ UNCHANGED <<kernel, representation, nfilter>>
        /\ UNCHANGED lineVars

\* SeparableConvolution of a one-dimensional image with any one filter
DoSeparableConvolutionOne ==
    /\ pc = "ready"
    /\ \E i \in {j \in Deltas \cup Ramps : Dimensionality(j) = 1},
          f \in OneDimensionalFilters :
          SeparableCall(i, <<f>>, <<"periodic">>, <<>>)

\* SeparableConvolution with any number of filters, boundary conditions and
\* process arrays, also on an image that is not forged
DoSeparableConvolution ==
    /\ pc = "ready"
    /\ \E i \in Ramps \cup {RawImage}, fa \in FilterArrays,
          bc \in BoundaryConditionArrays, p \in ProcessArrays :
          SeparableCall(i, fa, bc, p)

\* the images ConvolveFT and GeneralConvolution are called with
Recast(img, dtype) == [img EXCEPT !.dtype = dtype]

Ones(sizes, dtype) == Image(sizes, dtype, [c \in Coords(sizes) |-> 1])

DoConvolveFT ==
    /\ pc = "ready"
    /\ \E i \in {Recast(j, t) : j \in Ramps, t \in {"uint16", "dcomplex"}} \cup {RawImage},
          k \in {Recast(j, t) : j \in Ramps, t \in {"dfloat", "scomplex"}} \cup {RawImage},
          r \in Representations :
          LET res == ConvolveFT(i, k, out, r[1], r[2], r[3])
          IN  /\ in' = i
              /\ kernel' = k
              /\ representation' = r
              /\ err' = res.err
              /\ out' = res.out
              /\ engine' = res.engine
    /\ op' = "ConvolveFT"
    /\ pc' = "done"
    /\ UNCHANGED <<filterArray, boundaryCondition, process, nfilter>>
    /\ UNCHANGED lineVars

\* GeneralConvolution with a kernel of at most the input's dimensionality
DoGeneralConvolution ==
    /\ pc = "ready"
    /\ \E i \in (Ramps \ {Ramp(<<>>)}) \cup {RawImage},
          k \in Ramps \cup {Ones(sizes, "bin") : sizes \in Shapes} \cup {RawImage},
          bc \in BoundaryConditionArrays :
          /\ Dimensionality(k) <= Dimensionality(i) \/ ~i.forged
          /\ LET res == GeneralConvolution(i, k, out, bc)
             IN  /\ in' = i
                 /\ kernel' = k
                 /\ boundaryCondition' = bc
                 /\ err' = res.err
                 /\ out' = res.out
                 /\ engine' = res.engine
    /\ op' = "GeneralConvolution"
    /\ pc' = "done"
    /\ UNCHANGED <<filterArray, process, representation, nfilter>>
    /\ UNCHANGED lineVars

Next ==
    \/ DoInternOneDimensionalFilter
    \/ DoSeparableConvolutionOne
    \/ DoSeparableConvolution
    \/ DoConvolveFT
    \/ DoGeneralConvolution

Spec == Init /\ [][Next]_vars

(***************************************************************************)
(* Vocabulary of the properties.                                           *)
(***************************************************************************)
Returned(o) == pc = "done" /\ op = o /\ err = NoError

Threw(o) == pc = "done" /\ op = o /\ err # NoError

RecognizedSymmetries == {"general", "even", "odd", "d-even", "d-odd"}

\* the logical size of a filter, from its coefficients and symmetry string
LogicalSize(f) ==
    IF f.symmetry \in {"even", "odd"} /\ f.filter # <<>> THEN 2 * Len(f.filter) - 1
    ELSE IF f.symmetry \in {"d-even", "d-odd"} THEN 2 * Len(f.filter)
    ELSE Len(f.filter)

\* the filter that applies to dimension d (1-based) in the call of the state
FilterFor(d) == IF Len(filterArray) = 1 THEN filterArray[1] ELSE filterArray[d]

Periodic == \A i \in 1 .. Len(boundaryCondition) : boundaryCondition[i] = "periodic"

Reversed(q) == [i \in 1 .. Len(q) |-> q[Len(q) + 1 - i]]

Negated(q) == [i \in 1 .. Len(q) |-> 0 - q[i]]

\* the full filter that a half filter and its symmetry stand for, tagged
\* "general", with the origin as given
FullFilter(f) ==
    LET H == f.filter
        front == SubSeq(H, 1, Len(H) - 1)
    IN  IF H = <<>> \/ f.symmetry \notin {"even", "odd", "d-even", "d-odd"} THEN f
        ELSE [filter |-> CASE f.symmetry = "even" -> H \o Reversed(front)
                           [] f.symmetry = "odd" -> H \o Negated(Reversed(front))
                           [] f.symmetry = "d-even" -> H \o Reversed(H)
                           [] f.symmetry = "d-odd" -> H \o Negated(Reversed(H)),
              symmetry |-> "general",
              origin |-> f.origin]

HasSymmetricFilter ==
    \E i \in 1 .. Len(filterArray) :
        filterArray[i].filter # <<>>
        /\ filterArray[i].symmetry \in {"even", "odd", "d-even", "d-odd"}

\* C1: under the periodic boundary condition, SeparableConvolution with half
\* filters tagged even, odd, d-even or d-odd writes, at every sample, what it
\* writes with the explicitly expanded full filters tagged general and the
\* same origins.
C1_SymmetryEquivalence ==
    (Returned("SeparableConvolution") /\ Periodic /\ HasSymmetricFilter)
    => out = SeparableConvolution(in, RawImage,
                 [i \in 1 .. Len(filterArray) |-> FullFilter(filterArray[i])],
                 boundaryCondition, process).out

C1_Witness ==
    /\ Returned("SeparableConvolution") /\ Periodic
    /\ filterArray = <<OneDimensionalFilter(<<1, 2>>, "odd", 2)>>
    /\ in.sizes = <<MaxLen>>
    /\ out.data # in.data

\* the dimensions (1-based) that the call of the state handed to the engine
\* as to be processed
Processed ==
    {d \in 1 .. Dimensionality(in) : engine[1].process[d]}

\* the origin of a filter that normalizes: as given, or the middle
OriginOf(f) == IF f.origin < 0 THEN LogicalSize(f) \div 2 ELSE f.origin

\* the kernel image that holds the filter of dimension d: its extent is odd
\* along d and 1 elsewhere, and the sample at distance m from the middle is
\* coefficient origin + m of the full filter (0 where the filter has none)
KernelImageOf(d) ==
    LET F == FullFilter(FilterFor(d)).filter
        origin == OriginOf(FilterFor(d))
        reach == Max(origin, Len(F) - origin - 1)
        sizes == [e \in 1 .. Dimensionality(in) |-> IF e = d THEN 2 * reach + 1 ELSE 1]
    IN  Image(sizes, "dfloat",
              [c \in Coords(sizes) |->
                  LET jj == origin + c[d] - reach
                  IN  IF jj >= 0 /\ jj < Len(F) THEN F[jj + 1] ELSE 0])

IsUnitFilter(f) == LogicalSize(f) = 1 /\ f.filter[1] = 1

\* C3: after SeparableConvolution, no dimension whose filter has logical size
\* 1 and coefficient 1 was handed to the engine as to be processed, whatever
\* the boundary condition and the process array; and when that is the filter
\* of every dimension the output holds the samples of the input.
C3_NoOpElision ==
    Returned("SeparableConvolution")
    => /\ \A d \in 1 .. Dimensionality(in) : IsUnitFilter(FilterFor(d)) => d \notin Processed
       /\ (\A d \in 1 .. Dimensionality(in) : IsUnitFilter(FilterFor(d)))
             => (out.sizes = in.sizes /\ out.data = in.data)

C3_Witness ==
    /\ Returned("SeparableConvolution")
    /\ Dimensionality(in) = 2 /\ in.sizes[1] > 1 /\ in.sizes[2] > 1
    /\ \A d \in 1 .. 2 : IsUnitFilter(FilterFor(d))
    /\ process = <<TRUE, TRUE>>
    /\ boundaryCondition = <<"add zeros">>
    /\ out.data = in.data

\* the filter the constructor was called with, when it was called on its own
Given == filterArray[1]

Constructed == pc = "done" /\ op = "InternOneDimensionalFilter"

OriginError == <<"Origin outside of filter">>

SymmetryError(symmetry) == <<"Symmetry string not recognized: ", symmetry>>

HasOriginOutside(f) ==
    f.origin >= 0 /\ f.origin >= LogicalSize(f)
    /\ f.symmetry \in RecognizedSymmetries \cup {""}

\* C4 as stated: normalizing a filter whose explicit origin is at or beyond
\* its logical size fails with "Origin outside of filter", for every
\* coefficient sequence, the empty one included.
C4_OriginAlwaysChecked ==
    (Constructed /\ HasOriginOutside(Given)) => err = OriginError

\* the entries of the filter array before entry ii normalize
NormalizeBefore(ii) ==
    \A jj \in 1 .. (ii - 1) : InternOneDimensionalFilter(filterArray[jj]).err = NoError

\* C4 as amended: normalizing a filter with at least one coefficient, a
\* recognized symmetry and an explicit origin at or beyond its logical size
\* fails with "Origin outside of filter", and SeparableConvolution then fails
\* with that error without invoking the engine; a filter without
\* coefficients normalizes to size 0 and origin 0 whatever its origin is.
C4_OriginChecked ==
    /\ (Constructed /\ HasOriginOutside(Given) /\ Given.filter # <<>>)
          => err = OriginError
    /\ (Constructed /\ Given.filter = <<>>)
          => (err = NoError /\ nfilter.size = 0 /\ nfilter.origin = 0)
    /\ (pc = "done" /\ op = "SeparableConvolution" /\ in.forged
        /\ Dimensionality(in) >= 1 /\ Len(filterArray) \in {1, Dimensionality(in)})
          => \A ii \in 1 .. Len(filterArray) :
                (NormalizeBefore(ii) /\ HasOriginOutside(filterArray[ii])
                 /\ filterArray[ii].filter # <<>>)
                   => (err = OriginError /\ engine = <<>>)

C4_Witness ==
    /\ Constructed
    /\ Given = OneDimensionalFilter(<<1, 2>>, "d-even", 4)
    /\ err = OriginError

IsUnrecognized(symmetry) == symmetry # "" /\ symmetry \notin RecognizedSymmetries

\* C5 as stated: normalizing a filter whose symmetry string is not empty and
\* not one of the five tags fails with the symmetry error, for every
\* coefficient sequence, the empty one included, and every origin.
C5_SymmetryAlwaysChecked ==
    (Constructed /\ IsUnrecognized(Given.symmetry)) => err = SymmetryError(Given.symmetry)

\* C5 as amended: normalizing a filter with at least one coefficient whose
\* symmetry string is not empty and not one of the five tags fails with the
\* symmetry error, whatever the coefficients and the origin; a filter without
\* coefficients normalizes without error whatever its symmetry string is.
C5_SymmetryChecked ==
    /\ (Constructed /\ IsUnrecognized(Given.symmetry) /\ Given.filter # <<>>)
          => err = SymmetryError(Given.symmetry)
    /\ (Constructed /\ Given.filter = <<>>) => err = NoError

C5_Witness ==
    /\ Constructed
    /\ Given = OneDimensionalFilter(<<2>>, "Even", 2 * MaxHalf)
    /\ err = SymmetryError("Even")

\* the failures of SeparableConvolution that C6 lists
ConfigurationErrors ==
    {<<"E::DIMENSIONALITY_NOT_SUPPORTED">>, <<"E::ARRAY_ILLEGAL_SIZE">>,
     <<"E::ARRAY_PARAMETER_WRONG_LENGTH">>, <<"Boundary condition not recognized">>,
     OriginError}
    \cup {SymmetryError(symmetry) : symmetry \in SymmetryStrings}

\* C6: a call of SeparableConvolution that fails for dimensionality 0, the
\* filter count, the length of the process array, a symmetry string, a
\* boundary condition string or an origin leaves the output image as it was
\* and invokes no external function.
C6_FailureAtomicity ==
    [][(op' = "SeparableConvolution" /\ pc' = "done" /\ err' \in ConfigurationErrors)
          => (out' = out /\ engine' = <<>>)]_vars

C6_Witness ==
    /\ Threw("SeparableConvolution")
    /\ err = <<"Boundary condition not recognized">>
    /\ out.forged /\ out.sizes = <<2>>
    /\ in.forged /\ Dimensionality(in) = 2
    /\ engine = <<>>

\* C7: SeparableConvolution on an input that is not forged, and ConvolveFT
\* and GeneralConvolution on an input or a filter image that is not forged,
\* fail with E::IMAGE_NOT_FORGED whatever the other arguments are.
C7_NotForgedFirst ==
    /\ (pc = "done" /\ op = "SeparableConvolution" /\ ~in.forged)
          => err = <<"E::IMAGE_NOT_FORGED">>
    /\ (pc = "done" /\ op \in {"ConvolveFT", "GeneralConvolution"}
        /\ (~in.forged \/ ~kernel.forged))
          => err = <<"E::IMAGE_NOT_FORGED">>

C7_Witness ==
    /\ Threw("SeparableConvolution")
    /\ ~in.forged
    /\ Len(filterArray) = 3
    /\ boundaryCondition = <<"mirror">>
    /\ Len(process) = 1
    /\ err = <<"E::IMAGE_NOT_FORGED">>

AllTrue(n) == [ii \in 1 .. n |-> TRUE]

\* C8: SeparableConvolution on a forged image of N dimensions fails when the
\* number of filters is neither 1 nor N, with E::ARRAY_ILLEGAL_SIZE if N is
\* at least 1, and when a non-empty process array has another length than N;
\* with an empty process array it throws, invokes the engine and writes the
\* output as it does with a process array of N times true.
C8_ArgumentCounts ==
    (pc = "done" /\ op = "SeparableConvolution" /\ in.forged)
    => LET N == Dimensionality(in)
           full == SeparableConvolution(in, RawImage, filterArray, boundaryCondition,
                                        AllTrue(N))
       IN  /\ Len(filterArray) \notin {1, N} => (err # NoError /\ engine = <<>>)
           /\ (Len(filterArray) \notin {1, N} /\ N >= 1) => err = <<"E::ARRAY_ILLEGAL_SIZE">>
           /\ (process # <<>> /\ Len(process) # N) => (err # NoError /\ engine = <<>>)
           /\ process = <<>>
                 => (/\ err = full.err
                     /\ engine = full.engine
                     /\ (err = NoError => out = full.out))

C8_Witness ==
    /\ Returned("SeparableConvolution")
    /\ process = <<>>
    /\ Dimensionality(in) = 2
    /\ Processed = {1, 2}
    /\ out.data # in.data

\* max(origin, logicalSize - origin - 1) over the integers
RequiredBorder(f) ==
    LET size == LogicalSize(f)
        origin == IF size = 0 THEN 0 ELSE OriginOf(f)
    IN  Max(origin, size - origin - 1)

\* C9: the border that SeparableConvolution hands to the engine for each
\* dimension is max(origin, logicalSize - origin - 1) of the dimension's
\* filter without wrap-around: 0 for a filter without coefficients, and less
\* than the logical size when that is positive.
C9_BorderRequirement ==
    Returned("SeparableConvolution")
    => \A d \in 1 .. Dimensionality(in) :
          /\ engine[1].border[d] = RequiredBorder(FilterFor(d))
          /\ LogicalSize(FilterFor(d)) > 0 => engine[1].border[d] < LogicalSize(FilterFor(d))

\* a filter that changes nothing: no coefficients, or the single coefficient 1
IsNoOp(f) == LogicalSize(f) = 0 \/ IsUnitFilter(f)

\* C10: a dimension whose filter is a no-op, or along which the input has
\* extent 1, is handed to the engine as not to be processed, with one filter
\* for all dimensions as with one filter per dimension.
C10_DimensionElision ==
    Returned("SeparableConvolution")
    => \A d \in 1 .. Dimensionality(in) :
          (IsNoOp(FilterFor(d)) \/ in.sizes[d] = 1) => d \notin Processed

\* the process array of the call, an empty one standing for all true
Requested == IF process = <<>> THEN AllTrue(Dimensionality(in)) ELSE process

\* what Framework::Separable writes for the call of the state when every
\* requested dimension whose filter has coefficients goes through the line
\* filter, none being switched off for a unit filter or an extent of 1
WithoutElision ==
    LET nDims == Dimensionality(in)
        filterData == [ii \in 1 .. Len(filterArray) |->
                          InternOneDimensionalFilter(filterArray[ii])]
    IN  FrameworkSeparable(in, SuggestFlex(in.dtype),
            [d \in 1 .. nDims |-> Requested[d] /\ FilterFor(d).filter # <<>>],
            BorderArray(filterData, nDims), boundaryCondition, filterData)

\* C11: the output of SeparableConvolution, with the dimensions it switches
\* off for a unit filter or for an extent of 1, holds at every sample what
\* processing those dimensions with their filters gives.
C11_ElisionNeutral ==
    Returned("SeparableConvolution") => out.data = WithoutElision.data

\* the calls of FourierTransform on out that the call of the state made
InverseTransforms ==
    {k \in 1 .. Len(engine) :
        engine[k].fn = "FourierTransform" /\ engine[k].arg = "out"}

\* both operands are given in the spatial domain with real samples
AllSpatialAndReal ==
    /\ representation[1] = "spatial" /\ representation[2] = "spatial"
    /\ IsReal(in.dtype) /\ IsReal(kernel.dtype)

\* C12: when ConvolveFT returns, its real flag is true exactly when input and
\* filter are both given as "spatial" with real samples; an output asked for
\* as "spatial" is inverse transformed once, last, with "real" exactly when
\* the flag is true, and any other output is not inverse transformed.
C12_RealFlag ==
    Returned("ConvolveFT") =>
        LET real == ConvolveFT(in, kernel, RawImage, representation[1],
                               representation[2], representation[3]).real
        IN  /\ real <=> AllSpatialAndReal
            /\ representation[3] = "spatial" =>
                  /\ InverseTransforms = {Len(engine)}
                  /\ "inverse" \in engine[Len(engine)].options
                  /\ "real" \in engine[Len(engine)].options <=> real
            /\ representation[3] # "spatial" => InverseTransforms = {}

C12_Witness ==
    /\ Returned("ConvolveFT") /\ AllSpatialAndReal
    /\ representation[3] = "spatial"
    /\ engine[Len(engine)].options = {"inverse", "real"}

\* C13: ConvolveFT raises the size-mismatch error before any computation:
\* no transform has run when it is raised, and out is what it was.
C13_SizesCheckedFirst ==
    [][(op' = "ConvolveFT" /\ err' = <<"E::SIZES_DONT_MATCH">>)
          => (engine' = <<>> /\ out' = out)]_vars

\* ConvolveFT was called with a forged input and a forged filter
ShapedCall == pc = "done" /\ op = "ConvolveFT" /\ in.forged /\ kernel.forged

\* the filter's sizes followed by the singleton dimensions it lacks
WithTrailingSingletons ==
    [d \in 1 .. Max(Len(kernel.sizes), Len(in.sizes)) |->
        IF d <= Len(kernel.sizes) THEN kernel.sizes[d] ELSE 1]

\* the filter, so extended, has another dimensionality than the input or
\* is larger than it along some dimension
FilterExceedsInput ==
    \/ Len(WithTrailingSingletons) # Len(in.sizes)
    \/ \E d \in 1 .. Len(in.sizes) : WithTrailingSingletons[d] > in.sizes[d]

\* the calls made on the filter and the product, by position in the call
CallsOf(fn, arg) == {k \in 1 .. Len(engine) : engine[k].fn = fn /\ engine[k].arg = arg}

\* C14: ConvolveFT on forged images fails with the size-mismatch error exactly
\* when the filter, extended with trailing singleton dimensions, still has
\* another dimensionality than the input or exceeds it along a dimension;
\* otherwise the filter is padded to the input's sizes before it is
\* transformed or multiplied, for any filterRepresentation, and both operands
\* of the product and the output have the input's sizes.
C14_FilterShaping ==
    ShapedCall =>
        /\ err = (IF FilterExceedsInput THEN <<"E::SIZES_DONT_MATCH">> ELSE NoError)
        /\ err = NoError =>
              /\ \E p \in CallsOf("Pad", "filter") :
                    /\ engine[p].sizes = <<in.sizes>>
                    /\ \A k \in CallsOf("FourierTransform", "filter")
                               \cup CallsOf("MultiplySampleWise", "out") : p < k
              /\ \A k \in CallsOf("FourierTransform", "filter") :
                    engine[k].sizes = <<in.sizes>>
              /\ \E m \in CallsOf("MultiplySampleWise", "out") :
                    engine[m].sizes = <<in.sizes, in.sizes>>
              /\ out.forged /\ out.sizes = in.sizes

C14_Witness ==
    /\ ShapedCall /\ err = NoError
    /\ Len(kernel.sizes) < Len(in.sizes)
    /\ representation[2] = "frequency"
    /\ \E d \in 1 .. Len(kernel.sizes) : kernel.sizes[d] < in.sizes[d]
    /\ out.sizes = in.sizes

\* GeneralConvolution was called with a forged input and a forged kernel
KernelCall == pc = "done" /\ op = "GeneralConvolution" /\ in.forged /\ kernel.forged

\* the calls of fn that the call of the state made
Invocations(fn) == {k \in 1 .. Len(engine) : engine[k].fn = fn}

\* the entries of the kernel of the state, each offset negated
MirroredEntries ==
    LET pixelTable == KernelFromImage(kernel, Dimensionality(in))
    IN  {<<[d \in 1 .. Dimensionality(in) |-> 0 - pixelTable[k].offset[d]],
           pixelTable[k].weight>> : k \in 1 .. Len(pixelTable)}

\* call k was made with the mirrored kernel
WithMirroredKernel(k) ==
    {<<engine[k].kernel[e].offset, engine[k].kernel[e].weight>> :
        e \in 1 .. Len(engine[k].kernel)} = MirroredEntries

\* the boundary condition strings of the call are all known
KnownBoundaryCondition ==
    \A i \in 1 .. Len(boundaryCondition) :
        boundaryCondition[i] \in BoundaryConditionVocabulary

\* the engine's part in the claim as first stated: a kernel that is not binary
\* always reaches Framework::Full, exactly once
C15_FullAlwaysInvoked ==
    (KernelCall /\ ~IsBinary(kernel.dtype)) =>
        /\ Invocations("Uniform") = {}
        /\ \E k \in 1 .. Len(engine) :
              Invocations("Framework::Full") = {k} /\ WithMirroredKernel(k)

\* C15: with a forged input and kernel, a binary kernel is mirrored and given
\* to Uniform, once, and Framework::Full is not invoked; a kernel that is not
\* binary never reaches Uniform, and is mirrored and given to Framework::Full,
\* once, when the boundary condition strings are known; when one is not, the
\* call fails before Framework::Full is invoked.
C15_BinaryShortCircuit ==
    KernelCall =>
        IF IsBinary(kernel.dtype)
        THEN /\ Len(engine) = 1 /\ Invocations("Uniform") = {1}
             /\ WithMirroredKernel(1)
             /\ Invocations("Framework::Full") = {}
        ELSE /\ Invocations("Uniform") = {}
             /\ IF KnownBoundaryCondition
                THEN /\ Len(engine) = 1 /\ Invocations("Framework::Full") = {1}
                     /\ WithMirroredKernel(1)
                ELSE engine = <<>> /\ err # NoError

C15_Witness ==
    /\ KernelCall /\ IsBinary(kernel.dtype)
    /\ Invocations("Uniform") = {1}
    /\ \E e \in 1 .. Len(engine[1].kernel) :
          \E d \in 1 .. Dimensionality(in) : engine[1].kernel[e].offset[d] > 0

\* C16: a sequence of n > 0 coefficients that normalizes has logical size n
\* (general, or no symmetry string), 2n-1 (even, odd) or 2n (d-even, d-odd);
\* a negative origin becomes the logical size div 2, and the origin is at
\* least 0 and below the logical size.  An empty sequence has logical size 0
\* and origin 0.
C16_NormalizedSizeAndOrigin ==
    (Constructed /\ err = NoError) =>
        LET n == Len(Given.filter)
        IN  IF n = 0
            THEN nfilter.size = 0 /\ nfilter.origin = 0
            ELSE /\ Given.symmetry \in {"", "general"} => nfilter.size = n
                 /\ Given.symmetry \in {"even", "odd"} => nfilter.size = 2 * n - 1
                 /\ Given.symmetry \in {"d-even", "d-odd"} => nfilter.size = 2 * n
                 /\ Given.origin < 0 => nfilter.origin = nfilter.size \div 2
                 /\ 0 <= nfilter.origin /\ nfilter.origin < nfilter.size

C16_Witness ==
    /\ Constructed /\ err = NoError
    /\ Len(Given.filter) = MaxHalf /\ Given.symmetry = "even" /\ Given.origin < 0
    /\ nfilter.size = 2 * MaxHalf - 1 /\ nfilter.origin = MaxHalf - 1

(***************************************************************************)
(* Line filter invocations.  Framework::Separable and Framework::Full hand *)
(* lines to the line filter from several threads.  Here two invocations    *)
(* run one iteration of the outer loop at a time, in any order, on buffers *)
(* that lie in one memory: the input buffers, each with its border, and    *)
(* behind them the output buffers, side by side or interleaved.            *)
(***************************************************************************)
Workers == {1, 2}

\* params.dimension for a line along dimension imageDim of the image: the
\* tensor dimension, when made spatial, comes first
EngineDimension(imageDim, tensorToSpatial) ==
    IF tensorToSpatial THEN imageDim + 1 ELSE imageDim

\* the value of an output sample computed from a read outside the buffer
UndefinedSamples == {0, 1}

LineCoefficientArrays == {[k \in 1 .. n |-> k] : n \in 1 .. MaxHalf}

\* the filters with coefficients that the constructor accepts
NormalizedFilters ==
    {nf \in {InternOneDimensionalFilter(OneDimensionalFilter(c, sym, o)) :
                c \in LineCoefficientArrays, sym \in RecognizedSymmetries, o \in Origins} :
        nf.err = NoError}

AbsentFilter == InternOneDimensionalFilter(OneDimensionalFilter(<<>>, "", 0 - 1))

\* filter_ of a call with nFilters filters, f being the one for imageDim
FilterSet(f, nFilters, imageDim) ==
    [k \in 1 .. nFilters |-> IF nFilters = 1 \/ k = imageDim + 1 THEN f ELSE AbsentFilter]

\* the pixel tables of one-dimensional kernels
PixelTables == {Mirror(KernelFromImage(Ramp(<<n>>), 1)) : n \in 1 .. MaxLen}

\* the parameters of invocation w and its progress: ii is the index of the
\* outer loop, reads the input samples read so far, procDim the entry of
\* filter_ used, written the addresses written so far
LineParameters(kind, w, length, border, packed, imageDim, tensorToSpatial) ==
    LET room == length + 2 * border
        outStart == Cardinality(Workers) * room
    IN  [kind |-> kind,
         inBuffer |-> (w - 1) * room + border, inStride |-> 1,
         outBuffer |-> IF packed THEN outStart + (w - 1) * length ELSE outStart + (w - 1),
         outStride |-> IF packed THEN 1 ELSE Cardinality(Workers),
         length |-> length, border |-> border,
         dimension |-> EngineDimension(imageDim, tensorToSpatial),
         tensorToSpatial |-> tensorToSpatial, imageDim |-> imageDim,
         ii |-> 0, reads |-> {}, procDim |-> 0 - 1, written |-> {}]

\* the memory before the invocations: input samples that all differ, then
\* the output samples
InitialMemory(length, border) ==
    LET outStart == Cardinality(Workers) * (length + 2 * border)
    IN  [a \in 0 .. (outStart + Cardinality(Workers) * length - 1) |->
            IF a < outStart THEN a + 1 ELSE 0]

InitLines ==
    /\ pc = "lines"
    /\ op = "none"
    /\ in = RawImage
    /\ out = RawImage
    /\ filterArray = <<>>
    /\ boundaryCondition = <<>>
    /\ process = <<>>
    /\ kernel = RawImage
    /\ representation = <<>>
    /\ err = NoError
    /\ nfilter = AbsentFilter
    /\ engine = <<>>
    /\ \E length \in 1 .. MaxLen, packed \in BOOLEAN :
          \/ \E f \in NormalizedFilters, nDims \in 1 .. 2, tensorToSpatial \in BOOLEAN :
                \E nFilters \in {1, nDims}, imageDim \in 0 .. (nDims - 1) :
                   /\ shared = [filter_ |-> FilterSet(f, nFilters, imageDim),
                                pixelTable |-> <<>>]
                   /\ lines = [w \in Workers |->
                                  LineParameters("separable", w, length, BorderOf(f),
                                                 packed, imageDim, tensorToSpatial)]
                   /\ memory = InitialMemory(length, BorderOf(f))
          \/ \E pixelTable \in PixelTables :
                /\ shared = [filter_ |-> <<>>, pixelTable |-> pixelTable]
                /\ lines = [w \in Workers |->
                               LineParameters("general", w, length, Reach(pixelTable, 1),
                                              packed, 0, FALSE)]
                /\ memory = InitialMemory(length, Reach(pixelTable, 1))

\* params.inBuffer as the line filter sees it: sample i of the line, the
\* border included, is i strides from the start
InBuffer(l, mem) ==
    [i \in (0 - l.border) .. (l.length - 1 + l.border) |-> mem[l.inBuffer + i * l.inStride]]

\* the same buffer indexed by coordinates
InBufferAt(l, mem) ==
    [c \in {<<i>> : i \in DOMAIN InBuffer(l, mem)} |-> InBuffer(l, mem)[c[1]]]

\* one iteration of the outer loop: sum is computed and "*out = sum" written
Iterate(w, procDim, reads, sums) ==
    LET l == lines[w]
        at == OutPosition(l.outBuffer, l.ii, l.outStride)
    IN  /\ \E sum \in sums : memory' = [memory EXCEPT ![at] = sum]
        /\ lines' = [lines EXCEPT ![w] =
                        [l EXCEPT !.ii = l.ii + 1, !.reads = l.reads \cup reads,
                                  !.procDim = procDim, !.written = l.written \cup {at}]]
        /\ UNCHANGED shared
        /\ UNCHANGED callVars

\* SeparableConvolutionLineFilter::Filter of invocation w, iteration ii
SeparableLineStep(w) ==
    /\ pc = "lines"
    /\ lines[w].kind = "separable"
    /\ lines[w].ii < lines[w].length
    /\ LET l == lines[w]
           procDim == ProcDim(Len(shared.filter_), l.dimension, l.tensorToSpatial)
           inside == procDim \in 0 .. (Len(shared.filter_) - 1)
           reads == IF inside THEN SamplesRead(shared.filter_[procDim + 1], l.ii) ELSE {}
       IN  Iterate(w, procDim, reads,
                   IF inside /\ reads \subseteq DOMAIN InBuffer(l, memory)
                   THEN {SeparableLineFilter(shared.filter_, InBuffer(l, memory), l.length,
                                             l.dimension, l.tensorToSpatial)[l.ii]}
                   ELSE UndefinedSamples)

\* GeneralConvolutionLineFilter::Filter of invocation w, iteration ii
GeneralLineStep(w) ==
    /\ pc = "lines"
    /\ lines[w].kind = "general"
    /\ lines[w].ii < lines[w].length
    /\ LET l == lines[w]
           reads == {l.ii + shared.pixelTable[k].offset[1] : k \in 1 .. Len(shared.pixelTable)}
       IN  Iterate(w, 0, reads,
                   IF reads \subseteq DOMAIN InBuffer(l, memory)
                   THEN {WeightedTaps(InBufferAt(l, memory), <<l.ii>>, shared.pixelTable, 1)}
                   ELSE UndefinedSamples)

NextLines ==
    \E w \in Workers :
        \/ SeparableLineStep(w)
        \/ GeneralLineStep(w)

SpecLines == InitLines /\ [][NextLines]_vars

\* the filter of filter_ that belongs to the dimension line w runs along
LineFilter(w) ==
    shared.filter_[IF Len(shared.filter_) = 1 THEN 1 ELSE lines[w].imageDim + 1]

\* invocation w of the separable line filter has run at least one iteration
Filtering(w) == pc = "lines" /\ lines[w].kind = "separable" /\ lines[w].ii > 0

\* C17: for every symmetry, every filter of logical size at least 1 with a
\* valid origin and every line length, each input sample the separable line
\* filter reads has an index from -border to length-1+border, where border is
\* the larger of origin and logicalSize-origin-1; also when origin is below
\* the number of stored coefficients minus 1 and their unsigned difference
\* wraps.
C17_ReadBounds ==
    \A w \in Workers :
        Filtering(w) =>
            LET f == LineFilter(w)
                border == Max(f.origin, f.size - f.origin - 1)
            IN  lines[w].reads \subseteq (0 - border) .. (lines[w].length - 1 + border)

C17_Witness ==
    \E w \in Workers :
        /\ Filtering(w) /\ lines[w].ii = lines[w].length
        /\ LineFilter(w).symmetry = "EVEN"
        /\ LineFilter(w).origin < Len(LineFilter(w).filter) - 1
        /\ (0 - (LineFilter(w).size - LineFilter(w).origin - 1)) \in lines[w].reads

\* C18: the separable line filter uses entry 0 of a single filter, and of one
\* filter per dimension the entry at the engine's dimension, less one when a
\* tensor dimension was made spatial; for every line the entry used exists
\* and, with one filter per dimension, is the one of the image dimension the
\* line runs along.
C18_FilterSelection ==
    \A w \in Workers :
        Filtering(w) =>
            /\ lines[w].procDim >= 0 /\ lines[w].procDim < Len(shared.filter_)
            /\ Len(shared.filter_) = 1 => lines[w].procDim = 0
            /\ Len(shared.filter_) > 1 =>
                  /\ lines[w].procDim = lines[w].dimension
                                           - (IF lines[w].tensorToSpatial THEN 1 ELSE 0)
                  /\ lines[w].procDim = lines[w].imageDim

C18_Witness ==
    \E w \in Workers :
        /\ Filtering(w) /\ lines[w].tensorToSpatial
        /\ Len(shared.filter_) = 2 /\ lines[w].imageDim = 1
        /\ lines[w].dimension = 2 /\ lines[w].procDim = 1

\* the addresses of the first n output samples of invocation w
OwnPositions(w, n) ==
    {lines[w].outBuffer + k * lines[w].outStride : k \in 0 .. (n - 1)}

\* the line that invocation w writes when it runs alone, from start to end
Sequential(w) ==
    LET l == lines[w]
        before == InitialMemory(l.length, l.border)
    IN  IF l.kind = "separable"
        THEN SeparableLineFilter(shared.filter_, InBuffer(l, before), l.length,
                                 l.dimension, l.tensorToSpatial)
        ELSE GeneralLineFilter(InBufferAt(l, before), <<0>>, l.length, shared.pixelTable)

\* what the iterations run so far, in whatever order, have done to the memory
LinesUntouched ==
    pc = "lines" =>
        /\ \A w \in Workers :
              /\ lines[w].written = OwnPositions(w, lines[w].ii)
              /\ Cardinality(lines[w].written) = lines[w].ii
              /\ \A k \in 0 .. (lines[w].ii - 1) :
                    memory[lines[w].outBuffer + k * lines[w].outStride] = Sequential(w)[k]
        /\ \A a \in DOMAIN memory :
              a \notin UNION {lines[w].written : w \in Workers} =>
                  memory[a] = InitialMemory(lines[1].length, lines[1].border)[a]

\* C19: an invocation of the separable or of the general line filter writes
\* its length output samples, sample k at k times the output stride in its
\* own output buffer, and nothing else: not the filters or the pixel table it
\* shares, not an input buffer, not another invocation's output.  So when the
\* buffers are disjoint every output line is, for every interleaving of the
\* invocations, the line the invocation writes when it runs alone.
C19_DisjointLines ==
    /\ []LinesUntouched
    /\ [][pc = "lines" => shared' = shared]_vars

C19_Witness ==
    /\ pc = "lines"
    /\ \A w \in Workers : lines[w].ii = lines[w].length /\ lines[w].length = MaxLen
    /\ lines[1].outStride = Cardinality(Workers)
    /\ \E w \in Workers : \E k \in 0 .. (lines[w].length - 1) : Sequential(w)[k] # 0

====
